---- MODULE Spec2Model ----
(***************************************************************************)
(* Address resolver service: the worker-pool coordinator                   *)
(* (fetchAddressesInParallel), the bulk queue processor (BulkProcessor)    *)
(* and the resolution pipeline (AddressResolver, worker processProperty).  *)
(* Each subsystem has its own specification over its own variables; the    *)
(* variables of the other subsystems stay at their initial values.         *)
(***************************************************************************)
EXTENDS Integers, Sequences, FiniteSets, TLC

\* ---------------------------------------------------------------- bounds
MaxWorkers == 2
MaxProps == 2
MaxId == 2
MaxCrashes == 1
MaxBulk == 3
MaxBatchSize == 2
MaxExtraSteps == 1
MaxSales == 3
MaxRedisFailures == 1
MaxRows == 2
MaxConcurrency == 2

VARIABLES
    \* ---- worker pool (fetchAddressesInParallel)
    maxWorkers,      \* MAX_CONCURRENT_WORKERS
    properties,      \* the submitted list: sequence of property ids
    queue,           \* const queue = [...properties]: positions still queued
    finishedWorkers, \* let finishedWorkers
    completedJobs,   \* let completedJobs
    results,         \* const results: PropertyResponse[]
    settled,         \* state of the returned promise
    response,        \* value the promise resolved with
    wstate,          \* per worker: unspawned / starting / alive / dead
    toCoord,         \* per worker: messages posted to the coordinator
    toWorker,        \* per worker: messages posted to the worker
    jobLog,          \* position carried by every `job` postMessage, in order
    inFlight,        \* per worker: jobs sent to it and not yet answered
    doneSeen,        \* workers whose `done` the coordinator has handled
    misanswered,     \* whether some job was not answered by one result with its id
    \* ---- bulk queue processor (BulkProcessor)
    bulkIds,         \* propertyIds passed to enqueueBulkJob
    chunksToAdd,     \* chunks enqueueBulkJob has still to add to the queue
    bullQueue,       \* 'bulk-batch' entries waiting in the Bull queue
    progress,        \* redis progress:<jobId>
    resultsStore,    \* redis results:<jobId>
    cpc,             \* per consumer: position inside processBatch
    cchunk,          \* per consumer: data.propertyIds of its job
    cresults,        \* per consumer: results of Promise.allSettled
    cprogress,       \* per consumer: progress parsed from redis.get
    cexisting,       \* per consumer: existing results read from redis
    chunkLog,        \* totals of the counts of every chunk resolution so far
    cattempt,        \* per consumer: attemptsMade of the entry it is processing
    redisFailures,   \* Redis calls of processBatch that have thrown so far
    enqueued,        \* data.propertyIds of every queue.add('bulk-batch'), in order
    concurrency,     \* this.concurrency of the BulkProcessor, 0 before construction
    ci,              \* per consumer: the index i of processBatch's loop
    \* ---- resolution pipeline (AddressResolver, worker processProperty)
    steps,           \* AddressResolver.steps: the kinds of the configured steps
    caller,          \* none / resolver (resolve) / worker (processProperty)
    input,           \* the PropertyInput of the call
    rpc,             \* idle / awaitStep / finished: position in the step loop
    invoked,         \* step numbers whose execute was called, in order
    stepResults,     \* what each returned step reported
    errors,          \* const errors: string[] of executePipeline
    pipeResult,      \* value returned by executePipeline / processProperty
    timer,           \* unset / armed / fired / cleared
    promise,         \* executeWithTimeout's promise
    outcome,         \* what resolve / processProperty gave its caller
    firstCall,       \* the finished earlier resolve call of the same resolver
    \* ---- registry matcher (smartPostcodeSearch)
    hint,            \* which of input.outcode / input.incode are present
    sales,           \* rightmoveData.sales.length
    mpc,             \* idle / awaitQuery / done
    cursor,          \* strategy, sale and query the matcher is waiting on
    issued,          \* every registry query issued, in order
    answers,         \* per answered query: whether it matched, and its rows
    matchResult,     \* what smartPostcodeSearch returned
    \* ---- address formatting (extractPropertyDetails)
    apc,             \* idle, matched (a row is at hand), extracted
    landRegistryItem,\* the matched registry row
    propertyDetails  \* what extractPropertyDetails returned or threw

poolVars == <<maxWorkers, properties, queue, finishedWorkers, completedJobs,
              results, settled, response, wstate, toCoord, toWorker,
              jobLog, inFlight, doneSeen, misanswered>>

bulkVars == <<bulkIds, chunksToAdd, bullQueue, progress, resultsStore, cpc,
              cchunk, cresults, cprogress, cexisting, chunkLog, cattempt,
              redisFailures, enqueued, concurrency, ci>>

pipeVars == <<steps, caller, input, rpc, invoked, stepResults, errors,
              pipeResult, timer, promise, outcome, firstCall>>

matchVars == <<hint, sales, mpc, cursor, issued, answers, matchResult>>

addrVars == <<apc, landRegistryItem, propertyDetails>>

vars == <<poolVars, bulkVars, pipeVars, matchVars, addrVars>>

\* ------------------------------------------------------------ helpers
Workers == 1..MaxWorkers
Ids == 1..MaxId

Msg(t) == [type |-> t, id |-> 0, pos |-> 0, ok |-> FALSE]
JobMsg(p, i) == [type |-> "job", id |-> i, pos |-> p, ok |-> FALSE]
ResultMsg(i, s) == [type |-> "result", id |-> i, pos |-> 0, ok |-> s]
NoResponse == [success |-> FALSE, processed |-> 0, results |-> <<>>,
               successful |-> 0, failed |-> 0]

Min(a, b) == IF a < b THEN a ELSE b

RECURSIVE CountSuccess(_)
CountSuccess(rs) ==
    IF rs = <<>> THEN 0
    ELSE (IF rs[1].success THEN 1 ELSE 0) + CountSuccess(Tail(rs))

\* results.sort((a, b) => a.id - b.id): a stable sort by ascending id
InsertByIdUnique(r, s) ==
    IF \E i \in 1..Len(s) : s[i].id = r.id THEN s
    ELSE LET k == Cardinality({i \in 1..Len(s) : s[i].id <= r.id})
         IN  SubSeq(s, 1, k) \o <<r>> \o SubSeq(s, k + 1, Len(s))
InsertById(r, s) ==
    LET k == Cardinality({i \in 1..Len(s) : s[i].id <= r.id})
    IN  SubSeq(s, 1, k) \o <<r>> \o SubSeq(s, k + 1, Len(s))

SortByIdArrival(s) == s
RECURSIVE SortById(_)
SortById(s) ==
    IF s = <<>> THEN <<>>
    ELSE InsertById(s[Len(s)], SortById(SubSeq(s, 1, Len(s) - 1)))

\* ------------------------------------------------------------ pool
InitPool ==
    /\ maxWorkers \in 1..MaxWorkers
    /\ properties = <<>>
    /\ queue = <<>>
    /\ finishedWorkers = 0
    /\ completedJobs = 0
    /\ results = <<>>
    /\ settled = "none"
    /\ response = NoResponse
    /\ wstate = [w \in Workers |-> "unspawned"]
    /\ toCoord = [w \in Workers |-> <<>>]
    /\ toWorker = [w \in Workers |-> <<>>]
    /\ jobLog = <<>>
    /\ inFlight = [w \in Workers |-> 0]
    /\ doneSeen = {}
    /\ misanswered = FALSE

\* const workerCount = Math.min(MAX_CONCURRENT_WORKERS, properties.length)
WorkerCount(limit, n) == Min(limit, n)

\* the coordinator copies ids and compares them (a.id - b.id), nothing else:
\* submitted lists are taken up to order-preserving renaming of the ids, so
\* the ids used in a list are 1..k for some k
Dense(ps) ==
    \A i \in 1..Len(ps) : \A u \in 1..ps[i] : \E j \in 1..Len(ps) : ps[j] = u

\* POST /addresses -> fetchAddressesInParallel(properties): the promise is
\* created, the queue copied and the workers spawned.
FetchAddressesInParallel ==
    /\ settled = "none"
    /\ \E n \in 1..MaxProps : \E ps \in {qs \in [1..n -> Ids] : Dense(qs)} :
          /\ properties' = ps
          /\ queue' = [i \in 1..n |-> i]
          /\ wstate' = [w \in Workers |->
                          IF w <= WorkerCount(maxWorkers, n)
                          THEN "starting" ELSE "unspawned"]
    /\ settled' = "pending"
    /\ UNCHANGED <<maxWorkers, finishedWorkers, completedJobs, results,
                   response, toCoord, toWorker, jobLog, inFlight, doneSeen>>
    /\ UNCHANGED misanswered
    /\ UNCHANGED <<bulkVars, pipeVars, matchVars, addrVars>>

\* worker: parentPort.postMessage({ type: 'ready' }) at startup
WorkerStart(w) ==
    /\ wstate[w] = "starting"
    /\ wstate' = [wstate EXCEPT ![w] = "alive"]
    /\ toCoord' = [toCoord EXCEPT ![w] = Append(@, Msg("ready"))]
    /\ UNCHANGED <<maxWorkers, properties, queue, finishedWorkers,
                   completedJobs, results, settled, response, toWorker,
                   jobLog, inFlight, doneSeen>>
    /\ UNCHANGED misanswered
    /\ UNCHANGED <<bulkVars, pipeVars, matchVars, addrVars>>

\* what the resolution of one identifier can do: produce an address, report
\* failure, or throw an unexpected exception
ResolveOutcomes == {"address", "failure", "threw"}

\* worker processProperty: result.success; an exception thrown inside the
\* try block becomes the failure result of the catch block
WorkerProcessProperty(resolved) == resolved = "address"

\* whether the messages posted for a job are exactly one result with its id
AnswersJob(reply, id) ==
    /\ Len(reply) = 1
    /\ reply[1].type = "result"
    /\ reply[1].id = id

\* worker: what is posted for one job: the one result message
JobReplyNone(id, ok) == <<>>
JobReplyTwice(id, ok) == <<ResultMsg(id, ok), ResultMsg(id, ok)>>
JobReply(id, ok) == <<ResultMsg(id, ok)>>

\* worker: parentPort.on('message'): a job is processed and answered with
\* { type: 'result', id: msg.id, result }, a no_more_jobs with done
WorkerOnMessage(w) ==
    /\ wstate[w] = "alive"
    /\ toWorker[w] # <<>>
    /\ LET m == Head(toWorker[w]) IN
         /\ toWorker' = [toWorker EXCEPT ![w] = Tail(@)]
         /\ IF m.type = "job"
            THEN \E resolved \in ResolveOutcomes :
                   LET reply == JobReply(m.id, WorkerProcessProperty(resolved))
                   IN /\ toCoord' = [toCoord EXCEPT ![w] = @ \o reply]
                      /\ misanswered' = (misanswered \/ ~AnswersJob(reply, m.id))
            ELSE /\ toCoord' = [toCoord EXCEPT ![w] = Append(@, Msg("done"))]
                 /\ UNCHANGED misanswered
    /\ UNCHANGED <<maxWorkers, properties, queue, finishedWorkers,
                   completedJobs, results, settled, response, wstate, jobLog,
                   inFlight, doneSeen>>
    /\ UNCHANGED <<bulkVars, pipeVars, matchVars, addrVars>>

\* const property = queue.shift(): the element handed out and the rest
SendNextJobTakePeek(q) == [taken |-> Head(q), rest |-> q]
SendNextJobTakeLast(q) ==
    [taken |-> q[Len(q)], rest |-> SubSeq(q, 1, Len(q) - 1)]
SendNextJobTake(q) == [taken |-> Head(q), rest |-> Tail(q)]

\* sendNextJob(worker, workerId): the message posted, or no_more_jobs
SendNextJobMsg(q, props) ==
    IF q = <<>> THEN Msg("no_more_jobs")
    ELSE JobMsg(SendNextJobTake(q).taken, props[SendNextJobTake(q).taken])

SendNextJobQueue(q) == IF q = <<>> THEN q ELSE SendNextJobTake(q).rest

\* if (finishedWorkers === MAX_CONCURRENT_WORKERS)
AllFinished(finished, limit) == finished = limit

\* the value passed to resolve(...)
BatchResponse(rs) ==
    [success |-> TRUE, processed |-> Len(rs), results |-> SortById(rs),
     successful |-> CountSuccess(rs), failed |-> Len(rs) - CountSuccess(rs)]

\* coordinator: worker.on('message', ...)
CoordOnMessage(w) ==
    /\ toCoord[w] # <<>>
    /\ LET m == Head(toCoord[w]) IN
         /\ toCoord' = [toCoord EXCEPT ![w] = Tail(@)]
         /\ IF m.type \in {"ready", "result"}
            THEN /\ toWorker' = [toWorker EXCEPT
                        ![w] = Append(@, SendNextJobMsg(queue, properties))]
                 /\ queue' = SendNextJobQueue(queue)
                 /\ jobLog' = IF queue = <<>> THEN jobLog
                              ELSE Append(jobLog,
                                     SendNextJobMsg(queue, properties).pos)
                 /\ inFlight' = [inFlight EXCEPT ![w] =
                        @ - (IF m.type = "result" THEN 1 ELSE 0)
                          + (IF queue = <<>> THEN 0 ELSE 1)]
            ELSE UNCHANGED <<toWorker, queue, jobLog, inFlight>>
         /\ IF m.type = "result"
            THEN /\ completedJobs' = completedJobs + 1
                 /\ results' = Append(results, [id |-> m.id, success |-> m.ok])
                 /\ UNCHANGED <<finishedWorkers, doneSeen, settled, response>>
            ELSE IF m.type = "done"
            THEN /\ finishedWorkers' = finishedWorkers + 1
                 /\ doneSeen' = doneSeen \cup {w}
                 /\ IF AllFinished(finishedWorkers + 1, maxWorkers)
                    THEN /\ results' = SortById(results)
                         /\ IF settled = "pending"
                            THEN /\ settled' = "resolved"
                                 /\ response' = BatchResponse(results)
                            ELSE UNCHANGED <<settled, response>>
                    ELSE UNCHANGED <<results, settled, response>>
                 /\ UNCHANGED completedJobs
            ELSE UNCHANGED <<completedJobs, results, finishedWorkers, doneSeen,
                             settled, response>>
    /\ UNCHANGED <<maxWorkers, properties, wstate>>
    /\ UNCHANGED misanswered
    /\ UNCHANGED <<bulkVars, pipeVars, matchVars, addrVars>>

\* worker.on('error', ...): reject(new Error(`Worker ${workerId} failed`))
OnWorkerError(s) == IF s = "pending" THEN "rejected" ELSE s

\* worker.on('exit', code): a non-zero code is only logged
OnWorkerExit(s) == s

\* workers that have terminated abnormally so far
Crashed == {w \in Workers : wstate[w] = "dead"}

\* The worker thread terminates abnormally. An uncaught exception emits
\* 'error' and then 'exit' with code 1 (both handlers run); process.exit(1)
\* inside the worker emits 'exit' with code 1 alone.
WorkerCrash(w) ==
    /\ wstate[w] \in {"starting", "alive"}
    /\ Cardinality(Crashed) < MaxCrashes
    /\ wstate' = [wstate EXCEPT ![w] = "dead"]
    /\ \/ settled' = OnWorkerExit(OnWorkerError(settled))
       \/ settled' = OnWorkerExit(settled)
    /\ UNCHANGED <<maxWorkers, properties, queue, finishedWorkers,
                   completedJobs, results, response, toCoord, toWorker, jobLog,
                   inFlight, doneSeen>>
    /\ UNCHANGED misanswered
    /\ UNCHANGED <<bulkVars, pipeVars, matchVars, addrVars>>

NextPool ==
    \/ FetchAddressesInParallel
    \/ \E w \in Workers : WorkerStart(w)
    \/ \E w \in Workers : WorkerOnMessage(w)
    \/ \E w \in Workers : CoordOnMessage(w)
    \/ \E w \in Workers : WorkerCrash(w)

\* ------------------------------------------------------------ bulk
\* this.queue.process('bulk-batch', 2, ...): two concurrent chunk consumers
BULK_BATCH_CONCURRENCY == 2
Consumers == 1..BULK_BATCH_CONCURRENCY

\* defaultJobOptions: { attempts: 2, ... }
BULL_ATTEMPTS == 2

NoProgress == [totalProperties |-> 0, processedProperties |-> 0,
               successfulProperties |-> 0, failedProperties |-> 0,
               status |-> "none", completedAt |-> FALSE]

InitBulk ==
    /\ bulkIds = <<>>
    /\ chunksToAdd = <<>>
    /\ bullQueue = <<>>
    /\ progress = NoProgress
    /\ resultsStore = <<>>
    /\ cpc = [c \in Consumers |-> "idle"]
    /\ cchunk = [c \in Consumers |-> <<>>]
    /\ cresults = [c \in Consumers |-> <<>>]
    /\ cprogress = [c \in Consumers |-> NoProgress]
    /\ cexisting = [c \in Consumers |-> <<>>]
    /\ chunkLog = [chunks |-> 0, processed |-> 0, successful |-> 0, failed |-> 0]
    /\ cattempt = [c \in Consumers |-> 0]
    /\ redisFailures = 0
    /\ enqueued = <<>>
    /\ concurrency = 0
    /\ ci = [c \in Consumers |-> 0]

\* chunkArray(array, size): for (i = 0; i < length; i += size) slice(i, i+size)
RECURSIVE ChunkArrayFullOnly(_, _)
ChunkArrayFullOnly(array, size) ==
    IF Len(array) < size THEN <<>>
    ELSE <<SubSeq(array, 1, size)>>
           \o ChunkArrayFullOnly(SubSeq(array, size + 1, Len(array)), size)

RECURSIVE ChunkArray(_, _)
ChunkArray(array, size) ==
    IF array = <<>> THEN <<>>
    ELSE <<SubSeq(array, 1, Min(size, Len(array)))>>
           \o ChunkArray(SubSeq(array, Min(size, Len(array)) + 1, Len(array)), size)

\* initializeBulkJobProgress(jobId, totalProperties)
InitialProgressNone(total) == NoProgress
InitialProgress(total) ==
    [totalProperties |-> total, processedProperties |-> 0,
     successfulProperties |-> 0, failedProperties |-> 0,
     status |-> "pending", completedAt |-> FALSE]

\* new BulkProcessor(redisUrl, concurrency)
NewBulkProcessor ==
    /\ concurrency = 0
    /\ concurrency' \in 1..MaxConcurrency
    /\ UNCHANGED <<bulkIds, chunksToAdd, bullQueue, progress, resultsStore, cpc,
                   cchunk, cresults, cprogress, cexisting, chunkLog, cattempt,
                   redisFailures, enqueued, ci>>
    /\ UNCHANGED <<poolVars, pipeVars, matchVars, addrVars>>

\* enqueueBulkJob(propertyIds, batchSize) up to its first queue.add: the
\* list is chunked and the progress record written
EnqueueBulkJob ==
    /\ concurrency > 0
    /\ progress = NoProgress
    /\ \E n \in 1..MaxBulk : \E size \in 1..MaxBatchSize :
          /\ bulkIds' = [i \in 1..n |-> i]
          /\ chunksToAdd' = ChunkArray([i \in 1..n |-> i], size)
          /\ progress' = InitialProgress(n)
    /\ UNCHANGED <<bullQueue, resultsStore, cpc, cchunk, cresults, cprogress,
                   cexisting, chunkLog, cattempt, redisFailures>>
    /\ UNCHANGED enqueued
    /\ UNCHANGED <<concurrency, ci>>
    /\ UNCHANGED <<poolVars, pipeVars, matchVars, addrVars>>

\* a 'bulk-batch' entry of the queue: its data and Bull's attemptsMade
QueueEntry(ids, made) == [propertyIds |-> ids, attemptsMade |-> made]

\* enqueueBulkJob: one iteration of `await this.queue.add('bulk-batch', ...)`
EnqueueChunk ==
    /\ chunksToAdd # <<>>
    /\ bullQueue' = Append(bullQueue, QueueEntry(Head(chunksToAdd), 0))
    /\ chunksToAdd' = Tail(chunksToAdd)
    /\ enqueued' = Append(enqueued, Head(chunksToAdd))
    /\ UNCHANGED <<bulkIds, progress, resultsStore, cpc, cchunk, cresults,
                   cprogress, cexisting, chunkLog, cattempt, redisFailures>>
    /\ UNCHANGED <<concurrency, ci>>
    /\ UNCHANGED <<poolVars, pipeVars, matchVars, addrVars>>

\* results.filter(r => r.status === 'fulfilled' && r.value.success).length
SuccessfulCount(rs) == CountSuccess(rs)

\* const failed = results.length - successful
FailedCountRejectedOnly(rs) ==
    Cardinality({i \in 1..Len(rs) : rs[i].status = "rejected"})
FailedCount(rs) == Len(rs) - SuccessfulCount(rs)

\* processProperty(propertyId): the result of resolve, or for a thrown error
\* the failure result built in the catch block; the promise always fulfils
BulkProcessProperty(propertyId, resolved) ==
    [propertyId |-> propertyId, status |-> "fulfilled",
     success |-> resolved = "address"]

\* the loop of Promise.allSettled(batch.map(processProperty)) over the
\* chunk: one settled result per identifier, in order
RECURSIVE AllSettledStopAtFailure(_, _)
AllSettledStopAtFailure(ids, outcomes) ==
    IF ids = <<>> THEN <<>>
    ELSE IF outcomes[1] # "address"
    THEN <<BulkProcessProperty(ids[1], outcomes[1])>>
    ELSE <<BulkProcessProperty(ids[1], outcomes[1])>>
           \o AllSettledStopAtFailure(Tail(ids), Tail(outcomes))
AllSettled(ids, outcomes) ==
    [i \in 1..Len(ids) |-> BulkProcessProperty(ids[i], outcomes[i])]

\* const batch = propertyIds.slice(i, i + this.concurrency)
SliceAll(array, i, k) == SubSeq(array, i + 1, Len(array))
Slice(array, i, k) == SubSeq(array, i + 1, Min(i + k, Len(array)))

\* processBatch up to its first Promise.allSettled: a free processor slot
\* (the lowest-numbered one; the slots are interchangeable) takes the next
\* waiting entry and starts the resolutions of the first slice
TakeChunk(c) ==
    /\ cpc[c] = "idle"
    /\ \A d \in Consumers : d < c => cpc[d] # "idle"
    /\ bullQueue # <<>>
    /\ bullQueue' = Tail(bullQueue)
    /\ cchunk' = [cchunk EXCEPT ![c] = Head(bullQueue).propertyIds]
    /\ cattempt' = [cattempt EXCEPT ![c] = Head(bullQueue).attemptsMade]
    /\ cresults' = [cresults EXCEPT ![c] = <<>>]
    /\ cpc' = [cpc EXCEPT ![c] = "resolving"]
    /\ UNCHANGED <<bulkIds, chunksToAdd, progress, resultsStore, cprogress,
                   cexisting, redisFailures, chunkLog>>
    /\ UNCHANGED enqueued
    /\ UNCHANGED <<concurrency, ci>>
    /\ UNCHANGED <<poolVars, pipeVars, matchVars, addrVars>>

\* processBatch: the awaited Promise.allSettled of the slice at i settles
\* (processProperty never rejects); results.push(...batchResults), i +=
\* this.concurrency, and the next slice is started or the loop ends
BatchSettled(c) ==
    /\ cpc[c] = "resolving"
    /\ LET batch == Slice(cchunk[c], ci[c], concurrency) IN
       \E outcomes \in [1..Len(batch) -> ResolveOutcomes] :
         LET rs == cresults[c] \o AllSettled(batch, outcomes)
         IN /\ cresults' = [cresults EXCEPT ![c] = rs]
            /\ IF ci[c] + concurrency < Len(cchunk[c])
               THEN /\ ci' = [ci EXCEPT ![c] = @ + concurrency]
                    /\ UNCHANGED <<cpc, chunkLog>>
               ELSE /\ ci' = [ci EXCEPT ![c] = 0]
                    /\ cpc' = [cpc EXCEPT ![c] = "readProgress"]
                    /\ chunkLog' =
                          [chunks |-> chunkLog.chunks + 1,
                           processed |-> chunkLog.processed + Len(cchunk[c]),
                           successful |-> chunkLog.successful
                                            + SuccessfulCount(rs),
                           failed |-> chunkLog.failed + FailedCount(rs)]
    /\ UNCHANGED <<bulkIds, chunksToAdd, bullQueue, progress, resultsStore,
                   cchunk, cprogress, cexisting, cattempt, redisFailures>>
    /\ UNCHANGED enqueued
    /\ UNCHANGED concurrency
    /\ UNCHANGED <<poolVars, pipeVars, matchVars, addrVars>>

\* updateBulkJobProgress: await this.redis.get(`progress:${jobId}`)
ReadProgress(c) ==
    /\ cpc[c] = "readProgress"
    /\ cprogress' = [cprogress EXCEPT ![c] = progress]
    /\ cpc' = [cpc EXCEPT ![c] =
                 IF progress = NoProgress THEN "readResults" ELSE "writeProgress"]
    /\ UNCHANGED <<bulkIds, chunksToAdd, bullQueue, progress, resultsStore,
                   cchunk, cresults, cexisting, chunkLog, cattempt,
                   redisFailures>>
    /\ UNCHANGED enqueued
    /\ UNCHANGED <<concurrency, ci>>
    /\ UNCHANGED <<poolVars, pipeVars, matchVars, addrVars>>

\* updateBulkJobProgress: the record computed from the one read
UpdatedStatus(processed, total) ==
    IF processed >= total THEN "completed" ELSE "processing"

UpdatedProgress(p, processed, successful, failed) ==
    [totalProperties |-> p.totalProperties,
     processedProperties |-> p.processedProperties + processed,
     successfulProperties |-> p.successfulProperties + successful,
     failedProperties |-> p.failedProperties + failed,
     status |-> UpdatedStatus(p.processedProperties + processed, p.totalProperties),
     completedAt |-> p.completedAt \/
         UpdatedStatus(p.processedProperties + processed, p.totalProperties)
            = "completed"]

\* updateBulkJobProgress: await this.redis.set(`progress:${jobId}`, ...)
WriteProgress(c) ==
    /\ cpc[c] = "writeProgress"
    /\ progress' = UpdatedProgress(cprogress[c], Len(cchunk[c]),
                                   SuccessfulCount(cresults[c]),
                                   FailedCount(cresults[c]))
    /\ cpc' = [cpc EXCEPT ![c] = "readResults"]
    /\ UNCHANGED <<bulkIds, chunksToAdd, bullQueue, resultsStore, cchunk,
                   cresults, cprogress, cexisting, chunkLog, cattempt,
                   redisFailures>>
    /\ UNCHANGED enqueued
    /\ UNCHANGED <<concurrency, ci>>
    /\ UNCHANGED <<poolVars, pipeVars, matchVars, addrVars>>

\* processBatch: await this.redis.get(`results:${jobId}`)
ReadResults(c) ==
    /\ cpc[c] = "readResults"
    /\ cexisting' = [cexisting EXCEPT ![c] = resultsStore]
    /\ cpc' = [cpc EXCEPT ![c] = "writeResults"]
    /\ UNCHANGED <<bulkIds, chunksToAdd, bullQueue, progress, resultsStore,
                   cchunk, cresults, cprogress, chunkLog, cattempt,
                   redisFailures>>
    /\ UNCHANGED enqueued
    /\ UNCHANGED <<concurrency, ci>>
    /\ UNCHANGED <<poolVars, pipeVars, matchVars, addrVars>>

\* detailedResults: one record per identifier of the chunk
DetailedResults(rs) ==
    [i \in 1..Len(rs) |-> [propertyId |-> rs[i].propertyId,
                           success |-> rs[i].success]]

\* processBatch: allResults.push(...detailedResults); await this.redis.set;
\* the processor returns and the consumer is free again
WriteResults(c) ==
    /\ cpc[c] = "writeResults"
    /\ resultsStore' = cexisting[c] \o DetailedResults(cresults[c])
    /\ cpc' = [cpc EXCEPT ![c] = "idle"]
    /\ cchunk' = [cchunk EXCEPT ![c] = <<>>]
    /\ cresults' = [cresults EXCEPT ![c] = <<>>]
    /\ cprogress' = [cprogress EXCEPT ![c] = NoProgress]
    /\ cexisting' = [cexisting EXCEPT ![c] = <<>>]
    /\ cattempt' = [cattempt EXCEPT ![c] = 0]
    /\ UNCHANGED <<bulkIds, chunksToAdd, bullQueue, progress, chunkLog,
                   redisFailures>>
    /\ UNCHANGED enqueued
    /\ UNCHANGED <<concurrency, ci>>
    /\ UNCHANGED <<poolVars, pipeVars, matchVars, addrVars>>

\* Bull after the processor's promise rejected: the entry is queued again
\* while attemptsMade is below attempts, else it is moved to failed
AfterFailure(q, ids, made) ==
    IF made + 1 < BULL_ATTEMPTS THEN Append(q, QueueEntry(ids, made + 1)) ELSE q

\* one of processBatch's awaited Redis calls (the get or set of the progress
\* record, the get or set of the results list) throws: processBatch rejects
\* at that point and Bull handles the failed attempt
RedisCallFails(c) ==
    /\ cpc[c] \in {"readProgress", "writeProgress", "readResults", "writeResults"}
    /\ redisFailures < MaxRedisFailures
    /\ redisFailures' = redisFailures + 1
    /\ bullQueue' = AfterFailure(bullQueue, cchunk[c], cattempt[c])
    /\ cpc' = [cpc EXCEPT ![c] = "idle"]
    /\ cchunk' = [cchunk EXCEPT ![c] = <<>>]
    /\ cresults' = [cresults EXCEPT ![c] = <<>>]
    /\ cprogress' = [cprogress EXCEPT ![c] = NoProgress]
    /\ cexisting' = [cexisting EXCEPT ![c] = <<>>]
    /\ cattempt' = [cattempt EXCEPT ![c] = 0]
    /\ UNCHANGED <<bulkIds, chunksToAdd, progress, resultsStore, chunkLog>>
    /\ UNCHANGED enqueued
    /\ UNCHANGED <<concurrency, ci>>
    /\ UNCHANGED <<poolVars, pipeVars, matchVars, addrVars>>

NextBulk ==
    \/ NewBulkProcessor
    \/ EnqueueBulkJob
    \/ EnqueueChunk
    \/ \E c \in Consumers : TakeChunk(c)
    \/ \E c \in Consumers : BatchSettled(c)
    \/ \E c \in Consumers : ReadProgress(c)
    \/ \E c \in Consumers : WriteProgress(c)
    \/ \E c \in Consumers : ReadResults(c)
    \/ \E c \in Consumers : WriteResults(c)

\* the same with processBatch attempts that fail and are retried by Bull
NextBulkRetry ==
    \/ NewBulkProcessor
    \/ EnqueueBulkJob
    \/ EnqueueChunk
    \/ \E c \in Consumers : TakeChunk(c)
    \/ \E c \in Consumers : BatchSettled(c)
    \/ \E c \in Consumers : ReadProgress(c)
    \/ \E c \in Consumers : WriteProgress(c)
    \/ \E c \in Consumers : ReadResults(c)
    \/ \E c \in Consumers : WriteResults(c)
    \/ \E c \in Consumers : RedisCallFails(c)

\* ------------------------------------------------------------ pipeline
\* confidence values in tenths: 1.0, 0.9, 0.3
ConfFriend == 10
ConfRegistry == 9
ConfFallback == 3

StepResult(s, a, c, e) ==
    [success |-> s, address |-> a, confidence |-> c, error |-> e, thrown |-> FALSE]
Thrown(e) ==
    [success |-> FALSE, address |-> "", confidence |-> 0, error |-> e, thrown |-> TRUE]

NoResult == [kind |-> "none", success |-> FALSE, address |-> "", confidence |-> 0,
             source |-> "", stepUsed |-> 0, allErrors |-> <<>>,
             hasAllErrors |-> FALSE, error |-> ""]

\* what the partner API call can do: throw (non-2xx, network, timeout) or
\* answer with one of the response shapes processResponse distinguishes
FriendResponses ==
    {"http_error", "api_false_error", "api_false", "no_data", "no_address",
     "address"}

\* Step1FriendAPI.processResponse
ProcessResponse(resp) ==
    CASE resp = "api_false_error" -> StepResult(FALSE, "", 0, "partner error")
      [] resp = "api_false" -> StepResult(FALSE, "", 0, "API returned success=false")
      [] resp = "no_data" -> StepResult(FALSE, "", 0, "No data in API response")
      [] resp = "no_address" ->
            StepResult(FALSE, "", 0, "No valid address found in response")
      [] OTHER -> StepResult(TRUE, "friend address", ConfFriend, "")

\* Step1FriendAPI.execute: sanitizePropertyId throws for an id without a
\* digit, httpClient.get throws on failure; both are caught by the step
Step1ExecuteThrows(id, resp) ==
    IF id = "nodigit"
    THEN StepResult(FALSE, "", 0, "Property ID must contain at least one digit")
    ELSE IF resp = "http_error"
    THEN Thrown("API request failed")
    ELSE ProcessResponse(resp)
Step1Execute(id, resp) ==
    IF id = "nodigit"
    THEN StepResult(FALSE, "", 0, "Property ID must contain at least one digit")
    ELSE IF resp = "http_error"
    THEN StepResult(FALSE, "", 0, "API request failed")
    ELSE ProcessResponse(resp)

\* what the listing extraction and the registry search can report
RightmoveData ==
    [extract : {"failed", "exception", "ok"}, sales : 0..1,
     verified : BOOLEAN, postcode : BOOLEAN]

\* Step2RightmoveLandRegistry.execute (TypeScript source)
Step2Execute(rm) ==
    IF rm.extract = "exception"
    THEN StepResult(FALSE, "", 0, "unexpected step error")
    ELSE IF rm.extract = "failed"
    THEN StepResult(FALSE, "", 0, "Rightmove extraction failed")
    ELSE IF rm.sales > 0 /\ rm.verified
    THEN StepResult(TRUE, "registry address", ConfRegistry, "")
    ELSE IF rm.postcode
    THEN StepResult(TRUE, "fallback address", ConfFallback, "")
    ELSE StepResult(FALSE, "", 0,
                    "No address data found from Rightmove or Land Registry")

\* Step2RightmoveLandRegistry.execute (compiled worker build)
Step2ExecuteDistNullAddress(rm) ==
    IF rm.extract = "exception"
    THEN StepResult(FALSE, "", 0, "unexpected step error")
    ELSE IF rm.extract = "failed"
    THEN StepResult(FALSE, "", 0, "Rightmove extraction failed")
    ELSE IF rm.sales > 0 /\ rm.verified
    THEN StepResult(TRUE, "registry address", ConfRegistry, "")
    ELSE StepResult(TRUE, "", 0, "")
Step2ExecuteDist(rm) ==
    IF rm.extract = "exception"
    THEN StepResult(FALSE, "", 0, "unexpected step error")
    ELSE IF rm.extract = "failed"
    THEN StepResult(FALSE, "", 0, "Rightmove extraction failed")
    ELSE IF rm.sales > 0 /\ rm.verified
    THEN StepResult(TRUE, "registry address", ConfRegistry, "")
    ELSE StepResult(FALSE, "", 0, "")

\* a step added with addStep is any PipelineStep: it may report failure with
\* or without an error string, report success without an address, throw, or
\* report success with an address and any confidence (StepResult.confidence
\* is a number; 0 and 0.5 stand for the values no built-in step produces)
CustomOutcomes ==
    {StepResult(FALSE, "", 0, "Mock step"), StepResult(FALSE, "", 0, ""),
     StepResult(TRUE, "", 0, ""), Thrown("step exploded"),
     StepResult(TRUE, "custom address", 0, ""),
     StepResult(TRUE, "custom address", 5, "")}

\* the results step number i of the resolver can report for input id
StepOutcomes(kind, id) ==
    CASE kind = "friend" -> {Step1Execute(id, resp) : resp \in FriendResponses}
      [] kind = "registry" -> {Step2Execute(rm) : rm \in RightmoveData}
      [] OTHER -> CustomOutcomes

\* no earlier call
NoCall == [done |-> FALSE, outcome |-> NoResult, stepResults |-> <<>>,
           steps |-> <<>>, timedOut |-> FALSE]

InitPipe ==
    /\ steps = <<"friend", "registry">>
    /\ caller = "none"
    /\ input = [id |-> "numeric", url |-> "none"]
    /\ rpc = "idle"
    /\ invoked = <<>>
    /\ stepResults = <<>>
    /\ errors = <<>>
    /\ pipeResult = NoResult
    /\ timer = "unset"
    /\ promise = "none"
    /\ outcome = NoResult
    /\ firstCall = NoCall

\* addStep(step, position): splice at a valid position, else push
AddStepAtAppendOnly(ss, step, position) == Append(ss, step)
AddStepAt(ss, step, position) ==
    IF position.given /\ position.at >= 0 /\ position.at <= Len(ss)
    THEN SubSeq(ss, 1, position.at) \o <<step>>
           \o SubSeq(ss, position.at + 1, Len(ss))
    ELSE Append(ss, step)

AddStep ==
    /\ caller = "none"
    /\ Len(steps) < 2 + MaxExtraSteps
    /\ \E position \in {[given |-> FALSE, at |-> 0]}
                          \cup {[given |-> TRUE, at |-> k] : k \in -1 .. Len(steps) + 1} :
          steps' = AddStepAt(steps, "custom", position)
    /\ UNCHANGED <<caller, input, rpc, invoked, stepResults, errors, pipeResult,
                   timer, promise, outcome>>
    /\ UNCHANGED firstCall
    /\ UNCHANGED <<poolVars, bulkVars, matchVars, addrVars>>

\* validatePropertyInput: the message of the ValidationError thrown, or ""
ValidatePropertyInput(in) ==
    IF in.id = "empty" THEN "Property ID is required"
    ELSE IF in.url = "invalid" THEN "Invalid Rightmove URL format"
    ELSE ""

\* resolve's catch block: the error becomes a failure result
ResolveCatchRethrow(message) ==
    [kind |-> "thrown", success |-> FALSE, address |-> "", confidence |-> 0,
     source |-> "", stepUsed |-> 0, allErrors |-> <<>>, hasAllErrors |-> FALSE,
     error |-> message]
ResolveCatch(message) ==
    [kind |-> "returned", success |-> FALSE, address |-> "", confidence |-> 0,
     source |-> "error", stepUsed |-> 0, allErrors |-> <<>>,
     hasAllErrors |-> FALSE, error |-> message]

\* resolve(input) up to the first await inside executePipeline: validation,
\* setTimeout, and the call of the first step's execute
Resolve ==
    /\ caller = "none"
    /\ caller' = "resolver"
    /\ \E id \in {"empty", "nodigit", "numeric"} :
       \E url \in {"none", "valid", "invalid"} :
          /\ input' = [id |-> id, url |-> url]
          /\ IF ValidatePropertyInput([id |-> id, url |-> url]) # ""
             THEN /\ outcome' = ResolveCatch(
                         ValidatePropertyInput([id |-> id, url |-> url]))
                  /\ rpc' = "finished"
                  /\ UNCHANGED <<invoked, timer, promise>>
             ELSE /\ timer' = "armed"
                  /\ promise' = "pending"
                  /\ invoked' = <<1>>
                  /\ rpc' = "awaitStep"
                  /\ UNCHANGED outcome
    /\ UNCHANGED <<steps, stepResults, errors, pipeResult>>
    /\ UNCHANGED firstCall
    /\ UNCHANGED <<poolVars, bulkVars, matchVars, addrVars>>

\* const errors: string[] = [] at the start of executePipeline
NewErrorsKept(previous) == previous
NewErrors(previous) == <<>>

\* a further resolve(input) on the same resolver with the input of the call
\* that has finished, up to the first await inside executePipeline
ResolveAgain ==
    /\ caller = "resolver"
    /\ rpc = "finished"
    /\ ~firstCall.done
    /\ firstCall' = [done |-> TRUE, outcome |-> outcome,
                     stepResults |-> stepResults, steps |-> steps,
                     timedOut |-> timer = "fired"]
    /\ stepResults' = <<>>
    /\ errors' = NewErrors(errors)
    /\ pipeResult' = NoResult
    /\ IF ValidatePropertyInput(input) # ""
       THEN /\ outcome' = ResolveCatch(ValidatePropertyInput(input))
            /\ rpc' = "finished"
            /\ invoked' = <<>>
            /\ timer' = "unset"
            /\ promise' = "none"
       ELSE /\ timer' = "armed"
            /\ promise' = "pending"
            /\ invoked' = <<1>>
            /\ rpc' = "awaitStep"
            /\ outcome' = NoResult
    /\ UNCHANGED <<steps, caller, input>>
    /\ UNCHANGED <<poolVars, bulkVars, matchVars, addrVars>>

\* what step number i can answer: in a further call the steps answer as they
\* did in the first call (steps that answer deterministically)
StepAnswers(i) ==
    IF firstCall.done /\ i <= Len(firstCall.stepResults)
    THEN {firstCall.stepResults[i]}
    ELSE StepOutcomes(steps[i], input.id)

\* getSourceName(stepNumber)
GetSourceName(stepNumber) ==
    CASE stepNumber = 1 -> "friend_api"
      [] stepNumber = 2 -> "rightmove_land_registry"
      [] OTHER -> "error"

\* if (stepResult.success && stepResult.address)
StepSucceeded(r) == r.success /\ r.address # ""

\* executePipeline: the result returned for a successful step
SuccessResultFixedConfidence(r, stepNumber) ==
    [kind |-> "returned", success |-> TRUE, address |-> r.address,
     confidence |-> ConfFriend, source |-> GetSourceName(stepNumber),
     stepUsed |-> stepNumber, allErrors |-> <<>>, hasAllErrors |-> FALSE,
     error |-> ""]
SuccessResult(r, stepNumber) ==
    [kind |-> "returned", success |-> TRUE, address |-> r.address,
     confidence |-> r.confidence, source |-> GetSourceName(stepNumber),
     stepUsed |-> stepNumber, allErrors |-> <<>>, hasAllErrors |-> FALSE,
     error |-> ""]

\* executePipeline: the entry pushed to errors for a failed or throwing step
ErrorEntry(r, stepNumber) ==
    [step |-> stepNumber,
     message |-> IF r.thrown THEN "Unexpected error in step"
                 ELSE IF r.error # "" THEN r.error
                 ELSE "failed without specific error"]

\* errors.push(...)
RecordErrorDropped(errs, entry) == errs
RecordError(errs, entry) == Append(errs, entry)

\* executePipeline: the result returned when the loop ends
AllFailedResult(errs) ==
    [kind |-> "returned", success |-> FALSE, address |-> "", confidence |-> 0,
     source |-> "error", stepUsed |-> 0, allErrors |-> errs,
     hasAllErrors |-> TRUE, error |-> "All pipeline steps failed"]

\* executeWithTimeout after executePipeline returned: clearTimeout and
\* resolve(result); resolve then returns the result (a settled promise and
\* the result resolve already returned are left as they are)
FinishOverwrites(result) ==
    /\ rpc' = "finished"
    /\ pipeResult' = result
    /\ timer' = IF timer = "armed" THEN "cleared" ELSE timer
    /\ promise' = "resolved"
    /\ outcome' = result
Finish(result) ==
    /\ rpc' = "finished"
    /\ pipeResult' = result
    /\ timer' = IF timer = "armed" THEN "cleared" ELSE timer
    /\ IF promise = "pending"
       THEN /\ promise' = "resolved"
            /\ outcome' = result
       ELSE UNCHANGED <<promise, outcome>>

\* executePipeline: `await step.execute(input)` settles and the loop runs on
\* to the next await or to its return
StepReturn ==
    /\ caller = "resolver"
    /\ rpc = "awaitStep"
    /\ LET i == invoked[Len(invoked)] IN
       \E r \in StepAnswers(i) :
          /\ stepResults' = Append(stepResults, r)
          /\ IF ~r.thrown /\ StepSucceeded(r)
             THEN /\ Finish(SuccessResult(r, i))
                  /\ UNCHANGED <<invoked, errors>>
             ELSE /\ errors' = RecordError(errors, ErrorEntry(r, i))
                  /\ IF i < Len(steps)
                     THEN /\ invoked' = Append(invoked, i + 1)
                          /\ UNCHANGED <<rpc, pipeResult, timer, promise, outcome>>
                     ELSE /\ Finish(AllFailedResult(
                                       RecordError(errors, ErrorEntry(r, i))))
                          /\ UNCHANGED invoked
    /\ UNCHANGED <<steps, caller, input>>
    /\ UNCHANGED firstCall
    /\ UNCHANGED <<poolVars, bulkVars, matchVars, addrVars>>

\* the setTimeout callback of executeWithTimeout: reject(new TimeoutError);
\* resolve's catch turns the rejection into a failure result
TimeoutFires ==
    /\ caller = "resolver"
    /\ timer = "armed"
    /\ timer' = "fired"
    /\ IF promise = "pending"
       THEN /\ promise' = "rejected"
            /\ outcome' = ResolveCatch("Pipeline execution timed out")
       ELSE UNCHANGED <<promise, outcome>>
    /\ UNCHANGED <<steps, caller, input, rpc, invoked, stepResults, errors,
                   pipeResult>>
    /\ UNCHANGED firstCall
    /\ UNCHANGED <<poolVars, bulkVars, matchVars, addrVars>>

\* worker processProperty(id, outcode, incode) up to `await step1.execute`
ProcessProperty ==
    /\ caller = "none"
    /\ steps = <<"friend", "registry">>
    /\ caller' = "worker"
    /\ input' = [id |-> "numeric", url |-> "none"]
    /\ invoked' = <<1>>
    /\ rpc' = "awaitStep"
    /\ UNCHANGED <<steps, stepResults, errors, pipeResult, timer, promise,
                   outcome>>
    /\ UNCHANGED firstCall
    /\ UNCHANGED <<poolVars, bulkVars, matchVars, addrVars>>

\* [result1.error, result2.error].filter(error => Boolean(error))
RECURSIVE FilterErrors(_)
FilterErrors(rs) ==
    IF rs = <<>> THEN <<>>
    ELSE (IF rs[1].error # ""
          THEN <<[step |-> 0, message |-> rs[1].error]>> ELSE <<>>)
         \o FilterErrors(Tail(rs))

\* processProperty: the result returned when both steps failed
BothFailedResult(rs) ==
    [kind |-> "returned", success |-> FALSE, address |-> "", confidence |-> 0,
     source |-> "error", stepUsed |-> 2, allErrors |-> FilterErrors(rs),
     hasAllErrors |-> TRUE, error |-> "All steps failed"]

\* processProperty: a step's execute settles; Step 1, then Step 2
ProcessPropertyStepReturn ==
    /\ caller = "worker"
    /\ rpc = "awaitStep"
    /\ LET i == invoked[Len(invoked)] IN
       \E r \in (IF i = 1
                 THEN {Step1Execute(input.id, resp) : resp \in FriendResponses}
                 ELSE {Step2ExecuteDist(rm) : rm \in RightmoveData}) :
          /\ stepResults' = Append(stepResults, r)
          /\ IF StepSucceeded(r)
             THEN /\ pipeResult' = SuccessResult(r, i)
                  /\ outcome' = SuccessResult(r, i)
                  /\ rpc' = "finished"
                  /\ UNCHANGED invoked
             ELSE IF i = 1
             THEN /\ invoked' = Append(invoked, 2)
                  /\ UNCHANGED <<rpc, pipeResult, outcome>>
             ELSE /\ pipeResult' = BothFailedResult(Append(stepResults, r))
                  /\ outcome' = BothFailedResult(Append(stepResults, r))
                  /\ rpc' = "finished"
                  /\ UNCHANGED invoked
    /\ UNCHANGED <<steps, caller, input, errors, timer, promise>>
    /\ UNCHANGED firstCall
    /\ UNCHANGED <<poolVars, bulkVars, matchVars, addrVars>>

NextPipe ==
    \/ AddStep
    \/ Resolve
    \/ ResolveAgain
    \/ StepReturn
    \/ TimeoutFires
    \/ ProcessProperty
    \/ ProcessPropertyStepReturn

\* ------------------------------------------------------------ registry matcher
NoCursor == [strategy |-> 0, sale |-> 0, query |-> 0]
NoMatch == [success |-> FALSE, row |-> 0, strategy |-> <<>>, postcodeUsed |-> "",
            error |-> ""]

InitMatch ==
    /\ hint = [outcode |-> FALSE, incode |-> FALSE]
    /\ sales = 0
    /\ mpc = "idle"
    /\ cursor = NoCursor
    /\ issued = <<>>
    /\ answers = <<>>
    /\ matchResult = NoMatch

\* smartPostcodeSearch: the strategies pushed for the hint
StrategiesAlwaysFull(h) ==
    <<"full-postcode">> \o (IF h.outcode THEN <<"outcode-only">> ELSE <<>>)
Strategies(h) ==
    (IF h.outcode /\ h.incode THEN <<"full-postcode">> ELSE <<>>)
      \o (IF h.outcode THEN <<"outcode-only">> ELSE <<>>)

\* searchLandRegistryWithPostcode / searchLandRegistryWithOutcode: the
\* queries tried for one sale record, in order
QueriesOf(strategy) ==
    IF strategy = "outcode-only"
    THEN <<"outcode-year-price", "outcode-year">>
    ELSE <<"postcode-year-price", "postcode-year", "outcode-year-price",
           "outcode-year", "date-range">>

\* the query a cursor stands for
QueryAt(h, c) ==
    [sale |-> c.sale, kind |-> QueriesOf(Strategies(h)[c.strategy])[c.query]]

\* what executeSparqlQuery can resolve with: a failure (network error,
\* timeout, invalid JSON, no bindings) or the rows of the answer
RegistryResponses ==
    {[success |-> FALSE, results |-> <<>>]}
      \cup {[success |-> TRUE, results |-> rows] :
              rows \in UNION {[1..n -> 1..MaxRows] : n \in 0..MaxRows}}

\* if (result.success && result.results.length > 0)
QueryMatched(resp) == resp.success /\ Len(resp.results) > 0

\* extractPropertyDetails(result.results[0])
FirstRowLast(resp) == resp.results[Len(resp.results)]
FirstRow(resp) == resp.results[1]

\* strategy: `${strategy.name}-${result.strategy}`: the parts of the label,
\* which the code joins with "-"
StrategyLabel(name, tag) == <<name, tag>>

\* the cursor after a query without a match: next query of the sale, next
\* sale of the strategy, next strategy; strategy beyond the list when exhausted
NextCursor(h, n, c) ==
    IF c.query < Len(QueriesOf(Strategies(h)[c.strategy]))
    THEN [c EXCEPT !.query = c.query + 1]
    ELSE IF c.sale < n
    THEN [c EXCEPT !.sale = c.sale + 1, !.query = 1]
    ELSE [strategy |-> c.strategy + 1, sale |-> 1, query |-> 1]

\* smartPostcodeSearch(rightmoveData, input) up to its first registry query
\* (without a sale record it returns its failure at once; execute does not
\* call it then and goes on to the same failure result)
SmartPostcodeSearch ==
    /\ mpc = "idle"
    /\ \E o, i \in BOOLEAN : \E n \in 0..MaxSales :
         LET h == [outcode |-> o, incode |-> i] IN
         /\ hint' = h
         /\ sales' = n
         /\ IF n = 0
            THEN /\ mpc' = "done"
                 /\ matchResult' = [NoMatch EXCEPT
                        !.error = "No sales data for Land Registry search"]
                 /\ UNCHANGED <<cursor, issued>>
            ELSE IF Strategies(h) = <<>>
            THEN /\ mpc' = "done"
                 /\ matchResult' = [NoMatch EXCEPT
                        !.error = "All 0 postcode strategies failed"]
                 /\ UNCHANGED <<cursor, issued>>
            ELSE /\ mpc' = "awaitQuery"
                 /\ cursor' = [strategy |-> 1, sale |-> 1, query |-> 1]
                 /\ issued' = <<QueryAt(h, [strategy |-> 1, sale |-> 1,
                                           query |-> 1])>>
                 /\ UNCHANGED matchResult
    /\ UNCHANGED answers
    /\ UNCHANGED <<poolVars, bulkVars, pipeVars, addrVars>>

\* the awaited searchBy... settles: on a match the search returns; else the
\* loops run on to the next query, or the search returns its failure
QueryReturn ==
    /\ mpc = "awaitQuery"
    /\ \E resp \in RegistryResponses :
         IF QueryMatched(resp)
         THEN /\ answers' = Append(answers, [hit |-> TRUE, rows |-> resp.results])
              /\ matchResult' =
                    [success |-> TRUE, row |-> FirstRow(resp),
                     strategy |-> StrategyLabel(Strategies(hint)[cursor.strategy],
                                                QueryAt(hint, cursor).kind),
                     postcodeUsed |-> Strategies(hint)[cursor.strategy],
                     error |-> ""]
              /\ mpc' = "done"
              /\ UNCHANGED <<cursor, issued>>
         ELSE /\ answers' = Append(answers, [hit |-> FALSE, rows |-> <<>>])
              /\ IF NextCursor(hint, sales, cursor).strategy
                        <= Len(Strategies(hint))
                 THEN /\ cursor' = NextCursor(hint, sales, cursor)
                      /\ issued' = Append(issued,
                             QueryAt(hint, NextCursor(hint, sales, cursor)))
                      /\ UNCHANGED <<mpc, matchResult>>
                 ELSE /\ mpc' = "done"
                      /\ matchResult' = [NoMatch EXCEPT
                             !.error = "All postcode strategies failed"]
                      /\ UNCHANGED <<cursor, issued>>
    /\ UNCHANGED <<hint, sales>>
    /\ UNCHANGED <<poolVars, bulkVars, pipeVars, addrVars>>

NextMatch ==
    \/ SmartPostcodeSearch
    \/ QueryReturn

\* ------------------------------------------------------------ address formatting
\* strings are sequences of one-character strings
LowerLetters == <<"a", "b", "c", "d", "e", "f", "g", "h", "i", "j", "k", "l", "m", "n", "o", "p", "q", "r", "s", "t", "u", "v", "w", "x", "y", "z">>
UpperLetters == <<"A", "B", "C", "D", "E", "F", "G", "H", "I", "J", "K", "L", "M", "N", "O", "P", "Q", "R", "S", "T", "U", "V", "W", "X", "Y", "Z">>

IndexIn(letters, ch) == CHOOSE i \in 1..Len(letters) : letters[i] = ch

\* String.prototype.toLowerCase / toUpperCase on one character
ToLowerChar(ch) ==
    IF \E i \in 1..Len(UpperLetters) : UpperLetters[i] = ch
    THEN LowerLetters[IndexIn(UpperLetters, ch)] ELSE ch
ToUpperChar(ch) ==
    IF \E i \in 1..Len(LowerLetters) : LowerLetters[i] = ch
    THEN UpperLetters[IndexIn(LowerLetters, ch)] ELSE ch

ToLowerCase(str) == [i \in 1..Len(str) |-> ToLowerChar(str[i])]

\* str.split(' ')
RECURSIVE SplitFrom(_, _, _)
SplitFrom(str, word, words) ==
    IF str = <<>> THEN Append(words, word)
    ELSE IF Head(str) = " "
    THEN SplitFrom(Tail(str), <<>>, Append(words, word))
    ELSE SplitFrom(Tail(str), Append(word, Head(str)), words)
Split(str) == SplitFrom(str, <<>>, <<>>)

\* parts.join(sep)
RECURSIVE Join(_, _)
Join(parts, sep) ==
    IF parts = <<>> THEN <<>>
    ELSE IF Len(parts) = 1 THEN parts[1]
    ELSE parts[1] \o sep \o Join(Tail(parts), sep)

\* word.charAt(0).toUpperCase() + word.slice(1)
CapitalizeWord(word) ==
    IF word = <<>> THEN <<>> ELSE <<ToUpperChar(word[1])>> \o Tail(word)

\* street.toLowerCase().split(' ').map(capitalize).join(' ')
FormattedStreet(street) ==
    LET words == Split(ToLowerCase(street))
    IN  Join([i \in 1..Len(words) |-> CapitalizeWord(words[i])], <<" ">>)

\* str.startsWith(prefix)
StartsWith(str, prefix) ==
    Len(prefix) <= Len(str) /\ SubSeq(str, 1, Len(prefix)) = prefix

\* str.trim()
RECURSIVE TrimStart(_)
TrimStart(str) ==
    IF str # <<>> /\ Head(str) = " " THEN TrimStart(Tail(str)) ELSE str
RECURSIVE TrimEnd(_)
TrimEnd(str) ==
    IF str # <<>> /\ str[Len(str)] = " "
    THEN TrimEnd(SubSeq(str, 1, Len(str) - 1)) ELSE str
Trim(str) == TrimEnd(TrimStart(str))

\* the prefixes tested for isLondonPostcode
LondonPrefixes == {<<"S", "W">>, <<"W">>, <<"E">>, <<"N">>, <<"S">>, <<"N", "W">>, <<"S", "E">>}

\* a field of a row of json.results.bindings: missing (an unbound variable)
\* or a binding object { type, value }
Unbound == [bound |-> FALSE, value |-> <<>>]
Binding(v) == [bound |-> TRUE, value |-> v]

\* JavaScript values at hand in extractPropertyDetails
JsNull == [kind |-> "null", str |-> <<>>]
JsString(v) == [kind |-> "string", str |-> v]
JsObject(v) == [kind |-> "object", str |-> v]
Truthy(v) == v.kind = "object" \/ (v.kind = "string" /\ v.str # <<>>)

\* getValue(key): the binding's value when that is truthy, else the binding
\* object itself; null for a missing key
GetValue(item, key) ==
    IF ~item[key].bound THEN JsNull
    ELSE IF item[key].value # <<>> THEN JsString(item[key].value)
    ELSE JsObject(item[key].value)

NoDetails == [thrown |-> FALSE, fullAddress |-> <<>>, error |-> ""]
DetailsThrown(e) == [thrown |-> TRUE, fullAddress |-> <<>>, error |-> e]

\* addressParts.filter((part) => part && part.trim()): the parts kept
RECURSIVE FilterParts(_)
FilterParts(parts) ==
    IF parts = <<>> THEN <<>>
    ELSE (IF Truthy(parts[1]) /\ Trim(parts[1].str) # <<>>
          THEN <<parts[1].str>> ELSE <<>>) \o FilterParts(Tail(parts))

\* extractPropertyDetails(landRegistryItem): the fullAddress of the details
\* returned, or the TypeError thrown on the way
ExtractPropertyDetails(item) ==
    LET paon == GetValue(item, "paon")
        street == GetValue(item, "street")
        postcode == GetValue(item, "postcode")
    IN
    IF Truthy(street) /\ street.kind # "string"
    THEN DetailsThrown("street.toLowerCase is not a function")
    ELSE IF Truthy(postcode) /\ postcode.kind # "string"
    THEN DetailsThrown("postcode.startsWith is not a function")
    ELSE IF Truthy(paon) /\ paon.kind # "string"
    THEN DetailsThrown("part.trim is not a function")
    ELSE
    LET isLondonPostcode ==
            Truthy(postcode)
              /\ \E prefix \in LondonPrefixes : StartsWith(postcode.str, prefix)
        addressParts ==
            (IF Truthy(paon) THEN <<paon>> ELSE <<>>)
              \o (IF Truthy(street)
                  THEN <<JsString(FormattedStreet(street.str))>> ELSE <<>>)
              \o (IF isLondonPostcode
                  THEN <<JsString(<<"L", "o", "n", "d", "o", "n">>)>> ELSE <<>>)
              \o (IF Truthy(postcode) THEN <<postcode>> ELSE <<>>)
    IN [thrown |-> FALSE,
        fullAddress |-> Join(FilterParts(addressParts), <<",", " ">>),
        error |-> ""]

\* the rows extractPropertyDetails is given
PaonValues == {Unbound, Binding(<<>>), Binding(<<"6">>), Binding(<<" ">>)}
StreetValues ==
    {Unbound, Binding(<<>>), Binding(<<"w", "h", "i", "s", "t", "l", "e", "r", " ", "s", "q", "u", "a", "r", "e">>), Binding(<<"H", "I", "G", "H", " ", "s", "t">>)}
PostcodeValues ==
    {Unbound, Binding(<<>>), Binding(<<"S", "W", "1", "W", " ", "8", "B", "T">>), Binding(<<"N", "W", "1", " ", "4", "A", "B">>), Binding(<<"B", "1", " ", "1", "A", "A">>),
     Binding(<<"s", "w", "1", "w", " ", "8", "b", "t">>)}
LandRegistryItems ==
    [paon : PaonValues, street : StreetValues, postcode : PostcodeValues]

NoItem == [paon |-> Unbound, street |-> Unbound, postcode |-> Unbound]

InitAddr ==
    /\ apc = "idle"
    /\ landRegistryItem = NoItem
    /\ propertyDetails = NoDetails

\* a registry query has matched: result.results[0] is at hand
RowMatched ==
    /\ apc = "idle"
    /\ apc' = "matched"
    /\ landRegistryItem' \in LandRegistryItems
    /\ UNCHANGED propertyDetails
    /\ UNCHANGED <<poolVars, bulkVars, pipeVars, matchVars>>

\* const propertyDetails = this.extractPropertyDetails(result.results[0])
ExtractDetails ==
    /\ apc = "matched"
    /\ apc' = "extracted"
    /\ propertyDetails' = ExtractPropertyDetails(landRegistryItem)
    /\ UNCHANGED landRegistryItem
    /\ UNCHANGED <<poolVars, bulkVars, pipeVars, matchVars>>

NextAddr ==
    \/ RowMatched
    \/ ExtractDetails

\* ------------------------------------------------------------ specifications
PoolIdle ==
    /\ InitPool
    /\ maxWorkers = 1

Init == InitPool /\ InitBulk /\ InitPipe /\ InitMatch /\ InitAddr

SpecPool == Init /\ [][NextPool]_vars

InitBulkSpec == PoolIdle /\ InitBulk /\ InitPipe /\ InitMatch /\ InitAddr

SpecBulk == InitBulkSpec /\ [][NextBulk]_vars

SpecBulkRetry == InitBulkSpec /\ [][NextBulkRetry]_vars

InitPipeSpec == PoolIdle /\ InitBulk /\ InitPipe /\ InitMatch /\ InitAddr

SpecPipe == InitPipeSpec /\ [][NextPipe]_vars

InitMatchSpec == PoolIdle /\ InitBulk /\ InitPipe /\ InitMatch /\ InitAddr

SpecMatch == InitMatchSpec /\ [][NextMatch]_vars

InitAddrSpec == PoolIdle /\ InitBulk /\ InitPipe /\ InitMatch /\ InitAddr

SpecAddr == InitAddrSpec /\ [][NextAddr]_vars

\* ------------------------------------------------------------ worker pool claims
SentDone(w) ==
    \/ w \in doneSeen
    \/ \E i \in 1..Len(toCoord[w]) : toCoord[w][i].type = "done"

Spawned == {w \in Workers : wstate[w] # "unspawned"}

Range(f) == {f[i] : i \in DOMAIN f}

\* C1: when no worker has crashed and every spawned worker's `done` has been
\* handled, the batch promise is resolved - also when fewer than
\* MAX_CONCURRENT_WORKERS workers were spawned.
C1_ResolvesWhenAllSpawnedDone ==
    (settled # "none" /\ Crashed = {} /\ Spawned \subseteq doneSeen)
        => settled = "resolved"

\* C2: once a worker has terminated abnormally (error event, or exit with a
\* non-zero code) without having sent `done`, the batch promise is rejected.
C2_CrashRejectsBatch ==
    \A w \in Crashed : ~SentDone(w) => settled = "rejected"

\* C3: every submitted property is handed out in a `job` message exactly once:
\* no position is dispatched twice, a position is either still queued or
\* dispatched, and when the batch resolves every position has been dispatched.
C3_EveryJobExactlyOnce ==
    /\ \A i, j \in 1..Len(jobLog) : i # j => jobLog[i] # jobLog[j]
    /\ Range(jobLog) \cap Range(queue) = {}
    /\ Range(jobLog) \cup Range(queue) = 1..Len(properties)
    /\ settled = "resolved" => Range(jobLog) = 1..Len(properties)

C3_Witness ==
    /\ settled = "resolved"
    /\ maxWorkers = 2
    /\ Len(properties) = 2
    /\ Len(jobLog) = 2

\* number of messages of type t in channel ch
CountType(ch, t) == Cardinality({i \in 1..Len(ch) : ch[i].type = t})

RECURSIVE SumOver(_, _)
SumOver(f, S) ==
    IF S = {} THEN 0
    ELSE LET x == CHOOSE y \in S : TRUE IN f[x] + SumOver(f, S \ {x})

\* C15: each worker has at most one job that was sent to it and whose answer
\* the coordinator has not yet handled, so at most N jobs are in flight in a
\* pool of N workers.
C15_AtMostOneJobPerWorker ==
    /\ \A w \in Workers :
          /\ inFlight[w] <= 1
          /\ inFlight[w] = CountType(toWorker[w], "job")
                              + CountType(toCoord[w], "result")
    /\ SumOver(inFlight, Workers) <= maxWorkers

C15_Witness ==
    /\ maxWorkers = 2
    /\ \A w \in Workers : inFlight[w] = 1
    /\ CountType(toWorker[1], "job") = 1
    /\ CountType(toCoord[2], "result") = 1

\* C16: the k-th `job` message the coordinator sends, counted across all
\* workers, carries the k-th property of the submitted list.
C16_DispatchInSubmissionOrder ==
    /\ \A k \in 1..Len(jobLog) : jobLog[k] = k
    /\ \A w \in Workers : \A i \in 1..Len(toWorker[w]) :
          toWorker[w][i].type = "job" =>
              toWorker[w][i].id = properties[toWorker[w][i].pos]

C16_Witness ==
    /\ Len(jobLog) = 2
    /\ properties = <<2, 1>>
    /\ CountType(toWorker[2], "job") = 1
    /\ toWorker[2][1].id = 2
    /\ Len(results) = 1

\* C25: every job a worker has received was answered with exactly one result
\* message carrying the identifier of that job, whether the resolution
\* produced an address, failed or threw; the results the coordinator holds
\* and the results under way are those of dispatched jobs.
C25_OneResultPerJob ==
    /\ ~misanswered
    /\ \A w \in Workers :
          CountType(toCoord[w], "result") + CountType(toWorker[w], "job") <= 1
    /\ \A id \in Ids :
          Cardinality({i \in 1..Len(results) : results[i].id = id})
            <= Cardinality({k \in 1..Len(jobLog) : properties[jobLog[k]] = id})

C25_Witness ==
    /\ ~misanswered
    /\ Len(results) = 2
    /\ results[1].id = 2
    /\ ~results[1].success
    /\ results[2].id = 1
    /\ results[2].success
    /\ properties = <<1, 2>>
    /\ maxWorkers = 2

\* C26: a worker that has replied done has terminated its message loop: it
\* is no longer able to handle a message.
C26_DoneEndsMessageLoop ==
    \A w \in Workers : SentDone(w) => wstate[w] # "alive"

CountId(rs, id) == Cardinality({i \in 1..Len(rs) : rs[i].id = id})

\* C17: when a pool run resolves, the response holds exactly one entry per
\* submitted property (processed equals the number submitted) and
\* summary.successful + summary.failed == processed.
C17_ResolvedResponseComplete ==
    settled = "resolved" =>
        /\ response.processed = Len(properties)
        /\ Len(response.results) = Len(properties)
        /\ \A id \in Ids :
              CountId(response.results, id)
                  = Cardinality({i \in 1..Len(properties) : properties[i] = id})
        /\ response.successful + response.failed = response.processed

C17_Witness ==
    /\ settled = "resolved"
    /\ maxWorkers = 2
    /\ properties = <<1, 1>>
    /\ response.successful = 1
    /\ response.failed = 1

\* ------------------------------------------------------------ bulk claims
BulkAllProcessed ==
    /\ progress # NoProgress
    /\ chunksToAdd = <<>>
    /\ bullQueue = <<>>
    /\ \A c \in Consumers : cpc[c] = "idle"

\* C4: once every chunk of a batch has been processed, the progress record
\* has processed == total, succeeded and failed equal to the sums of the
\* per-chunk counts, and status completed.
C4_NoLostUpdate ==
    BulkAllProcessed =>
        /\ progress.processedProperties = progress.totalProperties
        /\ progress.successfulProperties = chunkLog.successful
        /\ progress.failedProperties = chunkLog.failed
        /\ progress.status = "completed"

\* C5: in every stored state of the progress record,
\* processed == succeeded + failed.
C5_ProcessedIsSucceededPlusFailed ==
    progress.processedProperties
        = progress.successfulProperties + progress.failedProperties

C5_Witness ==
    /\ BulkAllProcessed
    /\ chunkLog.chunks >= 2
    /\ progress.successfulProperties > 0
    /\ progress.failedProperties > 0
    /\ progress.processedProperties < progress.totalProperties

\* C18: after every progress update, status is completed if and only if
\* processed == total, and completedAt is set if and only if status is
\* completed.
C18_CompletedIffProcessedIsTotal ==
    progress.status \in {"processing", "completed"} =>
        /\ (progress.status = "completed")
              <=> (progress.processedProperties = progress.totalProperties)
        /\ progress.completedAt <=> (progress.status = "completed")

\* C19: from one stored state of the progress record to the next, processed
\* never decreases as long as the status is not completed.
C19_ProcessedMonotone ==
    [][progress.status \in {"pending", "processing"}
          => progress'.processedProperties >= progress.processedProperties]_vars

\* C20: the status of the progress record changes only from pending to
\* processing and from processing to completed, and is never failed.
C20_OnlyForwardStatusTransitions ==
    [][/\ progress'.status # "failed"
       /\ (progress.status # "none" /\ progress'.status # progress.status)
            => \/ progress.status = "pending" /\ progress'.status = "processing"
               \/ progress.status = "processing" /\ progress'.status = "completed"
      ]_vars

RECURSIVE Flatten(_)
Flatten(ss) == IF ss = <<>> THEN <<>> ELSE ss[1] \o Flatten(Tail(ss))

ChunkSizes(ss) == [i \in 1..Len(ss) |-> Len(ss[i])]

\* the chunks of the batch: those already added to the queue, then those
\* enqueueBulkJob has still to add
AllChunks == enqueued \o chunksToAdd

\* C21: enqueue over n identifiers with chunk size c creates one queue entry
\* per chunk; the chunks in order concatenate to the submitted list and every
\* chunk holds exactly c identifiers except possibly the last, which holds
\* between 1 and c; 237 identifiers with c = 50 give chunks of sizes
\* 50, 50, 50, 50, 37.
C21_ChunksPartitionTheList ==
    /\ progress # NoProgress =>
          /\ Flatten(AllChunks) = bulkIds
          /\ \E c \in 1..MaxBatchSize :
                /\ \A i \in 1..Len(AllChunks) - 1 : Len(AllChunks[i]) = c
                /\ Len(AllChunks[Len(AllChunks)]) \in 1..c
                /\ AllChunks = ChunkArray(bulkIds, c)
    /\ ChunkSizes(ChunkArray([i \in 1..237 |-> i], 50)) = <<50, 50, 50, 50, 37>>

C21_Witness ==
    /\ bulkIds = <<1, 2, 3>>
    /\ chunksToAdd = <<>>
    /\ enqueued = <<(<<1, 2>>), (<<3>>)>>

CountProperty(rs, id) ==
    Cardinality({i \in 1..Len(rs) : rs[i].propertyId = id})

\* C23: once every chunk of a batch has been processed, the stored results
\* list holds exactly one record for every submitted identifier.
C23_ResultsListComplete ==
    BulkAllProcessed =>
        /\ Len(resultsStore) = Len(bulkIds)
        /\ \A i \in 1..Len(bulkIds) : CountProperty(resultsStore, bulkIds[i]) = 1

\* ------------------------------------------------------------ pipeline claims
ReportsSuccess(r) == ~r.thrown /\ r.success /\ r.address # ""

\* C6: the steps are invoked in configured order, one at a time, and the
\* first step reporting success with a non-empty address ends the run: no
\* later step is invoked and the result carries its address and confidence.
C6_OrderedFirstSuccessWins ==
    /\ \A k \in 1..Len(invoked) : invoked[k] = k
    /\ Len(stepResults) <= Len(invoked)
    /\ Len(invoked) <= Len(stepResults) + 1
    /\ \A k \in 1..Len(stepResults) :
          ReportsSuccess(stepResults[k]) =>
              /\ k = Len(invoked)
              /\ rpc = "finished"
              /\ pipeResult.success
              /\ pipeResult.stepUsed = k
              /\ pipeResult.address = stepResults[k].address
              /\ pipeResult.confidence = stepResults[k].confidence
              /\ timer # "fired" => outcome = pipeResult

C6_Witness ==
    /\ caller = "resolver"
    /\ Len(steps) = 3
    /\ Len(stepResults) = 2
    /\ ReportsSuccess(stepResults[2])
    /\ outcome.success

\* C7: a step that reports failure, reports success with an empty address,
\* or throws does not end the run: its error is recorded and, when a next
\* step is configured, that step has been invoked.
C7_StepFailureNotFatal ==
    caller = "resolver" =>
        \A k \in 1..Len(stepResults) :
            ~ReportsSuccess(stepResults[k]) =>
                /\ Len(errors) >= k
                /\ errors[k].step = k
                /\ k < Len(steps) => Len(invoked) > k

C7_Witness ==
    /\ caller = "resolver"
    /\ Len(stepResults) = 1
    /\ stepResults[1].thrown
    /\ errors[1].message = "Unexpected error in step"
    /\ invoked = <<1, 2>>

\* C8: when every attempted step has failed, the result has success=false,
\* source tag error, and allErrors holds one entry per attempted step.
C8_OneErrorPerAttemptedStep ==
    (/\ rpc = "finished"
     /\ pipeResult.kind = "returned"
     /\ \A k \in 1..Len(stepResults) : ~ReportsSuccess(stepResults[k]))
        => /\ ~pipeResult.success
           /\ pipeResult.source = "error"
           /\ Len(pipeResult.allErrors) = Len(invoked)

\* C9: resolve never throws: after the timeout has fired its result is a
\* failure tagged error that mentions the timeout, and invalid input is
\* returned as a failure result tagged error.
C9_ResolveNeverThrows ==
    caller = "resolver" =>
        /\ outcome.kind # "thrown"
        /\ timer = "fired" =>
              /\ outcome.kind = "returned"
              /\ ~outcome.success
              /\ outcome.source = "error"
              /\ outcome.error = "Pipeline execution timed out"
        /\ (input.id = "empty" \/ input.url = "invalid") =>
              /\ outcome.kind = "returned"
              /\ ~outcome.success
              /\ outcome.source = "error"
              /\ invoked = <<>>

C9_Witness ==
    /\ caller = "resolver"
    /\ timer = "fired"
    /\ rpc = "finished"
    /\ pipeResult.success
    /\ ~outcome.success

\* C10: every result with success=true has confidence 1.0 or 0.9.
C10_ConfidenceIsPartnerOrRegistry ==
    (outcome.kind = "returned" /\ outcome.success)
        => outcome.confidence \in {ConfFriend, ConfRegistry}

\* C11: every result resolve returns with success=true has a non-empty
\* address and a confidence greater than 0.
C11_SuccessHasAddressAndConfidence ==
    (caller = "resolver" /\ outcome.kind = "returned" /\ outcome.success)
        => /\ outcome.address # ""
           /\ outcome.confidence > 0

\* ------------------------------------------------------------ registry matcher claims
\* the documented order: for each sale record in list order, the given
\* queries in order
RECURSIVE NestedOrder(_, _, _)
NestedOrder(from, n, kinds) ==
    IF from > n THEN <<>>
    ELSE [k \in 1..Len(kinds) |-> [sale |-> from, kind |-> kinds[k]]]
           \o NestedOrder(from + 1, n, kinds)

IsPrefix(a, b) == Len(a) <= Len(b) /\ a = SubSeq(b, 1, Len(a))

\* C12: with both outward and inward parts in the hint, the queries issued
\* are a prefix of: for each sale record in order, postcode+year+price,
\* postcode+year, outcode+year+price, outcode+year, date-range; no other
\* registry query is issued.
C12_FullHintFiveQueriesPerSale ==
    (hint.outcode /\ hint.incode) =>
        IsPrefix(issued, NestedOrder(1, sales, QueriesOf("full-postcode")))

\* C13: with no inward part in the hint, the queries issued are a prefix of:
\* for each sale record in order, outcode+year+price then outcode+year; the
\* postcode+year+price, postcode+year and date-range queries are never issued.
C13_NoInwardOnlyOutcodeQueries ==
    ~hint.incode =>
        /\ IsPrefix(issued, NestedOrder(1, sales, QueriesOf("outcode-only")))
        /\ \A k \in 1..Len(issued) :
              issued[k].kind \in {"outcode-year-price", "outcode-year"}

C13_Witness ==
    /\ hint.outcode
    /\ ~hint.incode
    /\ sales = 2
    /\ Len(issued) = 4
    /\ mpc = "done"
    /\ matchResult.success

C24_ResolveIdempotent ==
    firstCall.done =>
        /\ steps = firstCall.steps
        /\ (rpc = "finished" /\ firstCall.timedOut = (timer = "fired"))
              => outcome = firstCall.outcome

C24_Witness ==
    /\ firstCall.done
    /\ rpc = "finished"
    /\ timer = "cleared"
    /\ Len(steps) = 3
    /\ Len(stepResults) = 3
    /\ ~outcome.success
    /\ Len(outcome.allErrors) = 3
    /\ outcome = firstCall.outcome

\* C27: while a caller waits for a step that has not returned, an overall
\* timeout is armed that ends the wait with a timeout failure; this holds for
\* the worker's resolution as for resolve.
C27_HangingStepBoundedByTimeout ==
    (caller # "none" /\ rpc = "awaitStep" /\ outcome.kind = "none")
        => timer = "armed"

\* C28: the strategy label of a registry match is the tag of the query that
\* produced it: a match of the postcode+year+price query for a hint with both
\* parts is reported with the label postcode-year-price.
C28_StrategyLabelIsQueryTag ==
    (/\ matchResult.success
     /\ hint.outcode /\ hint.incode
     /\ issued[Len(issued)].kind = "postcode-year-price")
        => matchResult.strategy = <<"postcode-year-price">>

\* what execute returns for the search as it stands: the listing was
\* extracted, the search result is matchResult
Step2Return ==
    Step2ExecuteDist([extract |-> "ok", sales |-> Min(sales, 1),
                      verified |-> matchResult.success, postcode |-> FALSE])

AnyHit == \E k \in 1..Len(answers) : answers[k].hit

C29_WitnessNoHint ==
    /\ mpc = "done"
    /\ ~hint.outcode
    /\ sales = 1
    /\ answers = <<>>
    /\ ~Step2Return.success

\* whether a result's error text contains the message about the digit (the
\* error of an all-failed result is the join of the recorded step errors)
MentionsDigit(result) ==
    \/ result.error = "Property ID must contain at least one digit"
    \/ \E k \in 1..Len(result.allErrors) :
          result.allErrors[k].message
            = "Property ID must contain at least one digit"

\* C30: resolve of a property ID without a digit on the two built-in steps,
\* not cut short by the timeout, returns success=false with an error that
\* mentions the digit.
C30_NoDigitIdRejected ==
    (/\ caller = "resolver"
     /\ steps = <<"friend", "registry">>
     /\ input.id = "nodigit"
     /\ input.url = "none"
     /\ timer # "fired"
     /\ outcome.kind # "none")
        => /\ ~outcome.success
           /\ MentionsDigit(outcome)

\* a sequence without its element number i
RemoveAt(ss, i) == SubSeq(ss, 1, i - 1) \o SubSeq(ss, i + 1, Len(ss))

Positions(ss) ==
    {[given |-> FALSE, at |-> 0]}
      \cup {[given |-> TRUE, at |-> k] : k \in -1 .. Len(ss) + 1}

\* the built-in steps among the configured ones, in their order
RECURSIVE BuiltIn(_)
BuiltIn(ss) ==
    IF ss = <<>> THEN <<>>
    ELSE (IF ss[1] = "custom" THEN <<>> ELSE <<ss[1]>>) \o BuiltIn(Tail(ss))

\* C31: addStep on the configured steps adds exactly one step and keeps the
\* others in their order: without a position the new step is the last one,
\* with a position p in 0..length it is at index p; the steps configured so
\* far are the built-in ones in their order with the added ones, and the
\* loop runs the list in order.
C31_AddStepAppendsOrInserts ==
    /\ \A position \in Positions(steps) :
          LET ns == AddStepAt(steps, "custom", position) IN
          /\ Len(ns) = Len(steps) + 1
          /\ ~position.given =>
                /\ ns[Len(ns)] = "custom"
                /\ RemoveAt(ns, Len(ns)) = steps
          /\ (position.given /\ position.at >= 0 /\ position.at <= Len(steps)) =>
                /\ ns[position.at + 1] = "custom"
                /\ RemoveAt(ns, position.at + 1) = steps
    /\ BuiltIn(steps) = <<"friend", "registry">>
    /\ caller = "resolver" =>
          /\ Len(invoked) <= Len(steps)
          /\ \A k \in 1..Len(invoked) : invoked[k] = k

C31_Witness ==
    /\ steps = <<"friend", "custom", "registry">>
    /\ caller = "resolver"
    /\ invoked = <<1, 2, 3>>
    /\ rpc = "finished"
    /\ ~outcome.success

\* C32: in every stored state of a batch's progress record processed is at
\* most total, also when a chunk is run again after a failed attempt.
C32_ProcessedAtMostTotal ==
    progress.processedProperties <= progress.totalProperties

\* C33: whenever the stored status is completed, the stored results list
\* holds one record for every submitted identifier.
C33_CompletedImpliesAllResultsStored ==
    progress.status = "completed" =>
        \A i \in 1..Len(bulkIds) : CountProperty(resultsStore, bulkIds[i]) = 1

\* C34: a resolve call has one outcome: once the timeout has fired the
\* outcome is the timeout failure and stays it when the pipeline finishes
\* later; when the pipeline finishes first the timer is cancelled, the
\* outcome is the pipeline's result and no timeout failure is produced.
C34_OneOutcomePerCall ==
    (caller = "resolver" /\ ValidatePropertyInput(input) = "") =>
        /\ timer = "fired" =>
              /\ promise = "rejected"
              /\ outcome = ResolveCatch("Pipeline execution timed out")
        /\ timer = "cleared" =>
              /\ promise = "resolved"
              /\ rpc = "finished"
              /\ outcome = pipeResult
              /\ outcome.error # "Pipeline execution timed out"
        /\ timer = "armed" =>
              /\ promise = "pending"
              /\ outcome.kind = "none"
        /\ timer # "unset"

C34_Witness ==
    /\ caller = "resolver"
    /\ timer = "fired"
    /\ rpc = "finished"
    /\ Len(stepResults) = 2
    /\ ReportsSuccess(stepResults[2])
    /\ pipeResult.address = "registry address"
    /\ outcome.error = "Pipeline execution timed out"

\* C35: a result with success=true has a source tag other than error, and
\* the tag is that of the step that produced the address.
C35_SourceNamesProducingStep ==
    (caller = "resolver" /\ outcome.kind = "returned" /\ outcome.success) =>
        /\ outcome.source # "error"
        /\ outcome.source = "friend_api"
              => steps[outcome.stepUsed] = "friend"
        /\ outcome.source = "rightmove_land_registry"
              => steps[outcome.stepUsed] = "registry"

\* the identifiers of settled results, in order
PropertyIdsOf(rs) == [i \in 1..Len(rs) |-> rs[i].propertyId]

\* C36: while a chunk is being resolved, the resolutions in flight are the
\* slice at the loop index: at least one and at most `concurrency` of them,
\* following the identifiers already settled; when the loop has ended every
\* identifier of the chunk has exactly one settled result, in order.
C36_BoundedFanOutEachOnce ==
    \A c \in Consumers :
        /\ cpc[c] = "resolving" =>
              LET batch == Slice(cchunk[c], ci[c], concurrency) IN
              /\ Len(batch) >= 1
              /\ Len(batch) <= concurrency
              /\ PropertyIdsOf(cresults[c]) = SubSeq(cchunk[c], 1, ci[c])
              /\ batch = SubSeq(cchunk[c], ci[c] + 1, ci[c] + Len(batch))
        /\ cpc[c] \notin {"idle", "resolving"} =>
              PropertyIdsOf(cresults[c]) = cchunk[c]

C36_Witness ==
    /\ concurrency = 1
    /\ cpc[1] = "resolving"
    /\ cchunk[1] = <<1, 2>>
    /\ ci[1] = 1
    /\ Len(cresults[1]) = 1

\* C37: a failing collaborator call is returned by the built-in step as a
\* failure value: the result of a built-in step is never a thrown exception,
\* and a result carrying an error has success=false.
C37_CollaboratorFailureIsValue ==
    \A k \in 1..Len(stepResults) :
        steps[k] # "custom" =>
            /\ ~stepResults[k].thrown
            /\ stepResults[k].error # "" => ~stepResults[k].success

C37_Witness ==
    /\ caller = "resolver"
    /\ steps = <<"friend", "registry">>
    /\ Len(stepResults) = 2
    /\ stepResults[1].error = "API request failed"
    /\ ~stepResults[1].thrown
    /\ stepResults[2].error = "Rightmove extraction failed"
    /\ rpc = "finished"
    /\ Len(outcome.allErrors) = 2

\* C38: the progress record is written before the first chunk is enqueued:
\* it starts with total equal to the number of identifiers, status pending
\* and zero counts, and once a chunk is enqueued or taken the record exists,
\* so a consumer's progress update always finds it.
C38_ProgressCreatedBeforeFirstChunk ==
    /\ (bulkIds # <<>> /\ enqueued = <<>>) =>
          progress = [totalProperties |-> Len(bulkIds),
                      processedProperties |-> 0, successfulProperties |-> 0,
                      failedProperties |-> 0, status |-> "pending",
                      completedAt |-> FALSE]
    /\ enqueued # <<>> =>
          /\ progress # NoProgress
          /\ progress.totalProperties = Len(bulkIds)
    /\ \A c \in Consumers :
          cpc[c] \in {"writeProgress", "readResults", "writeResults"} =>
              /\ cprogress[c] # NoProgress
              /\ cprogress[c].totalProperties = Len(bulkIds)

C38_Witness ==
    /\ bulkIds = <<1, 2, 3>>
    /\ cpc[1] = "writeProgress"
    /\ cprogress[1].status = "pending"
    /\ cprogress[1].processedProperties = 0
    /\ Len(cchunk[1]) = 2

\* C39: the results of a resolved pool run are in ascending order of
\* identifier, whatever the order in which the results arrived.
C39_ResultsAscendingById ==
    settled = "resolved" =>
        \A i, j \in 1..Len(response.results) :
            i < j => response.results[i].id <= response.results[j].id

C39_Witness ==
    /\ settled = "resolved"
    /\ properties = <<2, 1>>
    /\ Len(response.results) = 2
    /\ response.results[1].id = 1
    /\ response.results[2].id = 2

\* the value of a row's field as text, empty when the field is missing
TextOf(field) == IF field.bound THEN field.value ELSE <<>>

\* title case: the first letter of every word upper case, the others lower
TitleCase(str) ==
    [i \in 1..Len(str) |->
        IF i = 1 \/ str[i - 1] = " " THEN ToUpperChar(ToLowerChar(str[i]))
        ELSE ToLowerChar(str[i])]

RECURSIVE NonBlank(_)
NonBlank(parts) ==
    IF parts = <<>> THEN <<>>
    ELSE (IF \E i \in 1..Len(parts[1]) : parts[1][i] # " "
          THEN <<parts[1]>> ELSE <<>>) \o NonBlank(Tail(parts))

\* the address the four parts of a row should give
ExpectedAddress(item) ==
    LET postcode == TextOf(item.postcode)
        london == IF \E prefix \in LondonPrefixes : StartsWith(postcode, prefix)
                  THEN <<"L", "o", "n", "d", "o", "n">> ELSE <<>>
    IN  Join(NonBlank(<<TextOf(item.paon), TitleCase(TextOf(item.street)),
                        london, postcode>>), <<",", " ">>)

\* C40: the address built from a matched registry row is the non-empty parts
\* among building identifier, title-cased street, London (for a postal code
\* starting with one of the London prefixes) and postal code, in that order,
\* joined by commas.
C40_AddressFromRow ==
    apc = "extracted" =>
        /\ ~propertyDetails.thrown
        /\ propertyDetails.fullAddress = ExpectedAddress(landRegistryItem)

\* the same for rows whose present fields all have a non-empty value
AddressFromRowWithValues ==
    (/\ apc = "extracted"
     /\ \A key \in {"paon", "street", "postcode"} :
           landRegistryItem[key].bound => landRegistryItem[key].value # <<>>)
        => /\ ~propertyDetails.thrown
           /\ propertyDetails.fullAddress = ExpectedAddress(landRegistryItem)

WhistlerSquare ==
    /\ apc = "extracted"
    /\ landRegistryItem = [paon |-> Binding(<<"6">>),
                           street |-> Binding(<<"w", "h", "i", "s", "t", "l", "e", "r", " ", "s", "q", "u", "a", "r", "e">>),
                           postcode |-> Binding(<<"S", "W", "1", "W", " ", "8", "B", "T">>)]
    /\ propertyDetails.fullAddress = <<"6", ",", " ", "W", "h", "i", "s", "t", "l", "e", "r", " ", "S", "q", "u", "a", "r", "e", ",", " ", "L", "o", "n", "d", "o", "n", ",", " ", "S", "W", "1", "W", " ", "8", "B", "T">>

====
